---- MODULE Spec2Model ----
(***************************************************************************)
(* A model of mrv.py (iMATools): the ingestion of a tab-separated          *)
(* methylation call file into one table per chromosome under a storage     *)
(* directory named by the file's digest, the normalisation of the          *)
(* requested CpG ranges, and visualize_one: resolution of the read list    *)
(* and of the position list by (batched) queries, assembly of the          *)
(* read x position matrix, removal of degenerate rows and the trailing     *)
(* column trim.                                                            *)
(*                                                                         *)
(* Read names are modelled by naturals whose order is the collation order  *)
(* of the names; positions are naturals.  A table is the sequence of its   *)
(* rows in insertion (rowid) order.                                        *)
(***************************************************************************)
EXTENDS Integers, Sequences, FiniteSets, TLC

VARIABLES
    file,          \* DATA_FILE: the sequence of its lines, the header first
    requested,     \* CHROMOSOMES_CpG_RANGES as parse_args leaves it
    disk,          \* mrv_output/: digest -> storage directory
    runs,          \* number of runs of main started so far
    pc,            \* position of main
    outcome,       \* "running", or how main ended
    preprocessed,  \* what is_preprocessed returned ("unknown" before it has)
    DATA_FILE_ROW_COUNT,
    DATA_FILE_SHA256SUM,
    CHROMOSOMES_CpG_RANGES,
    key,           \* index of the chromosome visualize is at
    read_names,    \* locals of visualize_one
    cpg_positions,
    matrix,
    finished_flag,
    returned,      \* where the last call of visualize_one returned
    issued         \* the range lists of the queries visualize_one has executed for read_names

vars == <<file, requested, disk, runs, pc, outcome, preprocessed, DATA_FILE_ROW_COUNT,
          DATA_FILE_SHA256SUM, CHROMOSOMES_CpG_RANGES, key, read_names,
          cpg_positions, matrix, finished_flag, returned, issued>>

(***************************************************************************)
(* Bounds of the model.                                                    *)
(***************************************************************************)
MaxPos == 3          \* positions of the enumerated calls: 1..MaxPos
MaxReads == 2        \* read names of the enumerated calls: 1..MaxReads
MaxRows == 4         \* data rows of an enumerated file
MaxCoord == 4        \* endpoints of the enumerated requested ranges: 0..MaxCoord
MaxRanges == 3       \* requested ranges per chromosome, enumerated lists
DigestSpace == 2     \* number of distinct digests
MaxRuns == 2         \* runs of main over the same output directory
MaxWindows == 2      \* full windows of BATCH ranges in the long lists of ranges
MaxCols == 4         \* positions of the files of the pruning runs: 1..MaxCols
PruneReads == 2      \* read names of the files of the pruning runs

(***************************************************************************)
(* Program constants.                                                      *)
(***************************************************************************)
BATCH == 300         \* ranges, resp. reads, combined in one query
MIN_FIELDS == 6      \* tab-separated fields a line must have
NO_CALL == 0 - 1     \* the matrix cell of a position the read has no call at

Chroms == {"X", "Y"}

(***************************************************************************)
(* Generic helpers.                                                        *)
(***************************************************************************)
Range(s) == {s[i] : i \in DOMAIN s}

MinOf(S) == CHOOSE x \in S : \A y \in S : x <= y

MaxOf(S) == CHOOSE x \in S : \A y \in S : y <= x

\* the elements of a finite set of integers, ascending
SortedSeq(S) ==
    [k \in 1..Cardinality(S) |->
        CHOOSE x \in S : Cardinality({y \in S : y < x}) = k - 1]

\* a sequence without its repetitions: the first occurrence of each element
KeepFirst(s) ==
    LET idx == SelectSeq([i \in 1..Len(s) |-> i],
                         LAMBDA i : \A j \in 1..(i - 1) : s[j] # s[i])
    IN  [k \in 1..Len(idx) |-> s[idx[k]]]

\* the number of elements of s equal to v (list.count)
Count(s, v) == Cardinality({i \in DOMAIN s : s[i] = v})

\* s without its first element equal to v (list.remove)
RemoveFirst(s, v) ==
    LET i == MinOf({k \in DOMAIN s : s[k] = v})
    IN  [k \in 1..(Len(s) - 1) |-> IF k < i THEN s[k] ELSE s[k + 1]]

\* for i in lo..hi: s = Body(s, i).  The range is run through by halves, and
\* the left half is evaluated (left = left) before the right half is entered,
\* so that the evaluation nests only logarithmically deep
RECURSIVE ForEach(_, _, _, _)
ForEach(Body(_, _), s, lo, hi) ==
    IF lo > hi THEN s
    ELSE IF lo = hi THEN Body(s, lo)
    ELSE LET mid  == (lo + hi) \div 2
             left == ForEach(Body, s, lo, mid)
         IN  IF left = left THEN ForEach(Body, left, mid + 1, hi) ELSE s

(***************************************************************************)
(* The data file.  A line is the number of its tab-separated fields and,   *)
(* of a data row, the fields the program reads: field 0 (chromosome),      *)
(* field 2 (position), field 4 (read name) and whether field 5 starts with *)
(* '-'.                                                                    *)
(***************************************************************************)
Line(n, c, p, r, m) == [nf |-> n, chr |-> c, pos |-> p, read |-> r, minus |-> m]

Header(n) == Line(n, "#", 0, 0, FALSE)

\* a data row with six fields
Row(c, p, r, m) == Line(MIN_FIELDS, c, p, r, m)

\* a table row whose flag is set for the lines whose field 5 starts with '-'
CallFlagOfMinus(l) == [start |-> l.pos, read_name |-> l.read,
                       is_methylated |-> IF l.minus THEN 1 ELSE 0]

\* a table row, as preprocess_file inserts it
Call(l) == [start |-> l.pos, read_name |-> l.read,
            is_methylated |-> IF l.minus THEN 0 ELSE 1]

get_file_row_count(f) == Len(f)

LineCode(l) ==
    l.nf + l.pos + l.read + (IF l.minus THEN 1 ELSE 0) + (IF l.chr = "X" THEN 1 ELSE 0)

\* the digest of the file's bytes: a function of the content with a finite
\* range (a checksum over the lines stands for SHA-256)
get_file_sha256sum(f) ==
    ForEach(LAMBDA sum, n : (sum + n * LineCode(f[n])) % DigestSpace, 0, 1, Len(f))

(***************************************************************************)
(* The storage directory of one digest: whether it exists, the row count   *)
(* pickled in data/meta_data (NoMeta: no such file), the tables of the     *)
(* data/<chromosome>.db files that exist, the chromosomes whose table has  *)
(* its two indexes, and the artifacts under visualization/.                *)
(***************************************************************************)
NoMeta == 0 - 1

NoFiles == [c \in {} |-> << >>]

NoDir == [exists |-> FALSE, meta |-> NoMeta, dbs |-> NoFiles, indexed |-> {}, vis |-> {}]

EmptyDir == [exists |-> TRUE, meta |-> NoMeta, dbs |-> NoFiles, indexed |-> {}, vis |-> {}]

\* a verdict that takes the presence of data/meta_data for validity
IsValidCacheMetaPresent(d, row_count) ==
    IF ~d.exists
    THEN FALSE
    ELSE d.meta # NoMeta

\* is_preprocessed's verdict on the storage directory d of the file's digest
IsValidCache(d, row_count) ==
    IF ~d.exists
    THEN FALSE
    ELSE IF d.meta = NoMeta
         THEN FALSE
         ELSE d.meta = row_count

\* a field count that is checked on the first line only
FirstShortLineOfFirstLine(f) ==
    IF f[1].nf < MIN_FIELDS THEN 1 ELSE Len(f) + 1

\* the index of the first line with fewer than MIN_FIELDS fields, else Len(f) + 1
FirstShortLine(f) ==
    LET bad == {i \in DOMAIN f : f[i].nf < MIN_FIELDS}
    IN  IF bad = {} THEN Len(f) + 1 ELSE MinOf(bad)

\* the tables preprocess_file has filled when its loop ends or returns: one
\* per chromosome seen, the rows in file order, the first line skipped
LoadedTables(f) ==
    LET rows == SubSeq(f, 2, FirstShortLine(f) - 1)
        seen == {rows[i].chr : i \in DOMAIN rows}
    IN  [c \in seen |->
            LET mine == SelectSeq(rows, LAMBDA l : l.chr = c)
            IN  [k \in 1..Len(mine) |-> Call(mine[k])]]

(***************************************************************************)
(* preprocess_chromosome_cpg_ranges: the union of the closed intervals     *)
(* [e[0], e[1]] taken with portion, an interval being a pair <<lo, hi>>.   *)
(* portion keeps an interval as the sorted list of its maximal closed      *)
(* pieces over a continuous domain: two closed intervals become one piece  *)
(* when they share a point.                                                *)
(***************************************************************************)
\* a union that takes the upper end of the interval added for the upper end
\* of the merged piece
IntervalUnionUpperOfAdded(acc, iv) ==
    LET before == SelectSeq(acc, LAMBDA x : x[2] < iv[1])
        after  == SelectSeq(acc, LAMBDA x : iv[2] < x[1])
        mid    == SelectSeq(acc, LAMBDA x : ~(x[2] < iv[1]) /\ ~(iv[2] < x[1]))
        lo     == MinOf({iv[1]} \cup {mid[k][1] : k \in DOMAIN mid})
    IN  before \o << <<lo, iv[2]>> >> \o after

\* a union that keeps apart two intervals that share only an end point
IntervalUnionOpenEnds(acc, iv) ==
    LET before == SelectSeq(acc, LAMBDA x : x[2] <= iv[1])
        after  == SelectSeq(acc, LAMBDA x : iv[2] <= x[1])
        mid    == SelectSeq(acc, LAMBDA x : ~(x[2] <= iv[1]) /\ ~(iv[2] <= x[1]))
        lo     == MinOf({iv[1]} \cup {mid[k][1] : k \in DOMAIN mid})
        hi     == MaxOf({iv[2]} \cup {mid[k][2] : k \in DOMAIN mid})
    IN  before \o << <<lo, hi>> >> \o after

\* a union that merges the interval added with the first piece it meets only
IntervalUnionFirstPiece(acc, iv) ==
    LET before == SelectSeq(acc, LAMBDA x : x[2] < iv[1])
        rest   == SubSeq(acc, Len(before) + 1, Len(acc))
    IN  IF rest = << >> \/ iv[2] < rest[1][1]
        THEN before \o <<iv>> \o rest
        ELSE before
             \o << <<MinOf({iv[1], rest[1][1]}), MaxOf({iv[2], rest[1][2]})>> >>
             \o SubSeq(rest, 2, Len(rest))

IntervalUnion(acc, iv) ==
    LET before == SelectSeq(acc, LAMBDA x : x[2] < iv[1])
        after  == SelectSeq(acc, LAMBDA x : iv[2] < x[1])
        mid    == SelectSeq(acc, LAMBDA x : ~(x[2] < iv[1]) /\ ~(iv[2] < x[1]))
        lo     == MinOf({iv[1]} \cup {mid[k][1] : k \in DOMAIN mid})
        hi     == MaxOf({iv[2]} \cup {mid[k][2] : k \in DOMAIN mid})
    IN  before \o << <<lo, hi>> >> \o after

\* new_ranges of preprocess_chromosome_cpg_ranges: old_intervals starts empty
\* and takes each range in turn
NewRanges(ranges) ==
    ForEach(LAMBDA old_intervals, n : IntervalUnion(old_intervals, ranges[n]),
            << >>, 1, Len(ranges))

(***************************************************************************)
(* The queries of visualize_one on the table t of the chromosome.          *)
(***************************************************************************)
\* start BETWEEN r[0] AND r[1]
Between(p, r) == r[1] <= p /\ p <= r[2]

Indexes(s) == [i \in 1..Len(s) |-> i]

\* SELECT DISTINCT read_name FROM (SELECT DISTINCT read_name,start FROM t
\* WHERE start BETWEEN .. AND .. ORDER BY start): the rows come in (start,
\* rowid) order and each read name is reported where it first occurs
SelectReadNames(t, interval) ==
    LET hit == SelectSeq(Indexes(t), LAMBDA i : Between(t[i].start, interval))
        ord == SortSeq(hit, LAMBDA i, j :
                   \/ t[i].start < t[j].start
                   \/ t[i].start = t[j].start /\ i < j)
    IN  KeepFirst([k \in 1..Len(ord) |-> t[ord[k]].read_name])

\* SELECT DISTINCT read_name FROM (SELECT DISTINCT read_name,start .. UNION
\* SELECT .. ORDER BY start), one SELECT per interval of dql: the compound
\* select yields its distinct rows ordered by start, then by read_name
UnionReadNames(t, dql) ==
    LET hit == SelectSeq(Indexes(t), LAMBDA i :
                   \E k \in DOMAIN dql : Between(t[i].start, dql[k]))
        ord == SortSeq(hit, LAMBDA i, j :
                   \/ t[i].start < t[j].start
                   \/ t[i].start = t[j].start /\ t[i].read_name < t[j].read_name
                   \/ t[i].start = t[j].start /\ t[i].read_name = t[j].read_name /\ i < j)
    IN  KeepFirst([k \in 1..Len(ord) |-> t[ord[k]].read_name])

\* a NULL start of the scratch table read_names: it sorts before every integer
NULL == 0 - 1

\* SELECT start FROM t WHERE read_name=.. ORDER BY start LIMIT 1
FirstStartOf(t, read_name) ==
    MinOf({t[i].start : i \in {k \in DOMAIN t : t[k].read_name = read_name}})

\* a loop over more than BATCH ranges whose last query is built and not run
ReadNamesStepLastNotRun(t, ranges, s, count) ==
    LET interval == ranges[count] IN
    IF count # 1 /\ count = Len(ranges)
    THEN [s EXCEPT !.dql = Append(s.dql, interval)]
    ELSE IF count >= BATCH * s.times300 - 1
         THEN LET got == UnionReadNames(t, Append(Append(s.dql, interval), interval))
              IN  [times300 |-> s.times300 + 1,
                   dql |-> << >>,
                   scratch |-> s.scratch \o [k \in 1..Len(got) |->
                       [start |-> FirstStartOf(t, got[k]), read_name |-> got[k]]],
                   issued |-> Append(s.issued, Append(Append(s.dql, interval), interval))]
         ELSE [s EXCEPT !.dql = Append(s.dql, interval)]

\* a loop over more than BATCH ranges that joins every range into one query
ReadNamesStepOneQuery(t, ranges, s, count) ==
    LET interval == ranges[count] IN
    IF count # 1 /\ count = Len(ranges)
    THEN LET got == UnionReadNames(t, Append(s.dql, interval))
         IN  [s EXCEPT !.dql = Append(s.dql, interval),
                       !.scratch = @ \o [k \in 1..Len(got) |->
                                            [start |-> NULL, read_name |-> got[k]]],
                       !.issued = Append(@, Append(s.dql, interval))]
    ELSE [s EXCEPT !.dql = Append(s.dql, interval)]

\* one turn of the loop over more than BATCH ranges, count being the number
\* of the range at hand: dql holds the intervals of the SELECTs joined so
\* far, scratch the rows inserted into the scratch table read_names, issued
\* the interval lists of the queries executed
ReadNamesStep(t, ranges, s, count) ==
    LET interval == ranges[count] IN
    IF count # 1 /\ count = Len(ranges)
    THEN LET got == UnionReadNames(t, Append(s.dql, interval))
         IN  [s EXCEPT !.dql = Append(s.dql, interval),
                       !.scratch = @ \o [k \in 1..Len(got) |->
                                            [start |-> NULL, read_name |-> got[k]]],
                       !.issued = Append(@, Append(s.dql, interval))]
    ELSE IF count >= BATCH * s.times300 - 1
         THEN LET got == UnionReadNames(t, Append(Append(s.dql, interval), interval))
              IN  [times300 |-> s.times300 + 1,
                   dql |-> << >>,
                   scratch |-> s.scratch \o [k \in 1..Len(got) |->
                       [start |-> FirstStartOf(t, got[k]), read_name |-> got[k]]],
                   issued |-> Append(s.issued, Append(Append(s.dql, interval), interval))]
         ELSE [s EXCEPT !.dql = Append(s.dql, interval)]

\* the loop over more than BATCH ranges, when it has ended
ReadNamesLoopEnd(t, ranges) ==
    ForEach(LAMBDA s, count : ReadNamesStep(t, ranges, s, count),
            [times300 |-> 1, dql |-> << >>, scratch |-> << >>, issued |-> << >>],
            1, Len(ranges))

\* the scratch table read_names when the loop has ended
ReadNamesLoop(t, ranges) == ReadNamesLoopEnd(t, ranges).scratch

\* SELECT DISTINCT read_name FROM read_names ORDER BY start
ScratchReadNames(scratch) ==
    LET ord == SortSeq(Indexes(scratch), LAMBDA i, j :
                   \/ scratch[i].start < scratch[j].start
                   \/ scratch[i].start = scratch[j].start /\ i < j)
    IN  KeepFirst([k \in 1..Len(ord) |-> scratch[ord[k]].read_name])

\* read_names of visualize_one, by the number of ranges
ResolveReadNames(t, ranges) ==
    IF Len(ranges) = 1 THEN SelectReadNames(t, ranges[1])
    ELSE IF Len(ranges) <= BATCH THEN UnionReadNames(t, ranges)
    ELSE ScratchReadNames(ReadNamesLoop(t, ranges))

\* the queries over the chromosome table that visualize_one executes for
\* read_names, each as the list of the intervals of its BETWEEN predicates
ReadNamesQueries(t, ranges) ==
    IF Len(ranges) = 1 THEN <<ranges>>
    ELSE IF Len(ranges) <= BATCH THEN <<ranges>>
    ELSE ReadNamesLoopEnd(t, ranges).issued

\* WHERE read_name='..' and start between .. and .. or start between .. and
\* ..: and binds tighter than or, so read_name goes with the first range only
WhereClause(row, read_name, ranges) ==
    \/ row.read_name = read_name /\ Between(row.start, ranges[1])
    \/ \E k \in 2..Len(ranges) : Between(row.start, ranges[k])

\* SELECT DISTINCT start .. WHERE read_name=.. and <ranges> UNION SELECT ..,
\* one SELECT per read of dql: the set of the starts
UnionStarts(t, dql, ranges) ==
    {t[i].start : i \in {k \in DOMAIN t :
        \E n \in DOMAIN dql : WhereClause(t[k], dql[n], ranges)}}

\* one turn of the loop over more than BATCH reads, count being the number
\* of the read at hand: dql holds the reads of the SELECTs joined so far,
\* scratch the starts inserted into the scratch table cpg_positions.  The
\* query that ends with the last read is built and never executed: the
\* cursor it is read from has no row left
PositionsStep(t, names, ranges, s, count) ==
    LET read_name == names[count] IN
    IF count # 1 /\ count = Len(names)
    THEN [s EXCEPT !.dql = Append(s.dql, read_name)]
    ELSE IF count >= BATCH * s.times300 - 1
         THEN [times300 |-> s.times300 + 1,
               dql |-> << >>,
               scratch |-> s.scratch \cup
                   UnionStarts(t, Append(Append(s.dql, read_name), read_name), ranges)]
         ELSE [s EXCEPT !.dql = Append(s.dql, read_name)]

\* the scratch table cpg_positions when the loop has ended
PositionsLoop(t, names, ranges) ==
    ForEach(LAMBDA s, count : PositionsStep(t, names, ranges, s, count),
            [times300 |-> 1, dql |-> << >>, scratch |-> {}], 1, Len(names)).scratch

\* cpg_positions of visualize_one, by the number of reads
ResolvePositions(t, names, ranges) ==
    IF Len(names) <= BATCH THEN SortedSeq(UnionStarts(t, names, ranges))
    ELSE SortedSeq(PositionsLoop(t, names, ranges))

(***************************************************************************)
(* Matrix assembly.                                                        *)
(***************************************************************************)
\* SELECT start .. WHERE read_name=.. and <ranges> ORDER BY start LIMIT 1,
\* into the_first_CpG_position, which starts as 0
FirstPosition(t, read_name, ranges) ==
    LET S == {t[i].start : i \in {k \in DOMAIN t : WhereClause(t[k], read_name, ranges)}}
    IN  IF S = {} THEN 0 ELSE MinOf(S)

\* SELECT DISTINCT start, is_methylated .. WHERE read_name=.. and <ranges>
\* ORDER BY start: pairs <<start, is_methylated>> in (start, rowid) order
CallsOf(t, read_name, ranges) ==
    LET hit == SelectSeq(Indexes(t), LAMBDA i : WhereClause(t[i], read_name, ranges))
        ord == SortSeq(hit, LAMBDA i, j :
                   \/ t[i].start < t[j].start
                   \/ t[i].start = t[j].start /\ i < j)
    IN  KeepFirst([k \in 1..Len(ord) |-> <<t[ord[k]].start, t[ord[k]].is_methylated>>])

\* one turn of the loop over the rows of one read: row is the row at hand,
\* s.j the column cursor (columns count from 1), s.line the matrix row
MergeStep(positions, s, row) ==
    IF s.j > Len(positions)
    THEN s
    ELSE IF row[1] # positions[s.j]
         THEN [s EXCEPT !.j = @ + 1]
         ELSE [j |-> s.j + 1,
               line |-> [s.line EXCEPT ![s.j] = IF row[2] = 1 THEN 1 ELSE 0]]

\* cpg_positions.index(the_first_CpG_position) raises ValueError
IndexRaises(t, names, positions, ranges) ==
    \E i \in DOMAIN names :
        \A j \in DOMAIN positions : positions[j] # FirstPosition(t, names[i], ranges)

AssembleRow(t, read_name, positions, ranges) ==
    LET first == FirstPosition(t, read_name, ranges)
        the_first_CpG_position_index == MinOf({j \in DOMAIN positions : positions[j] = first})
        rows  == CallsOf(t, read_name, ranges)
    IN  ForEach(LAMBDA s, n : MergeStep(positions, s, rows[n]),
                [j |-> the_first_CpG_position_index,
                 line |-> [j \in 1..Len(positions) |-> NO_CALL]],
                1, Len(rows)).line

AssembleMatrix(t, names, positions, ranges) ==
    [i \in 1..Len(names) |-> AssembleRow(t, names[i], positions, ranges)]

(***************************************************************************)
(* Pruning.                                                                *)
(***************************************************************************)
\* a condition that passes over the rows of a single unmethylated call
IsDegenerateSingleOne(row) ==
    Count(row, 1) = 1 /\ Count(row, 1) + Count(row, NO_CALL) = Len(row)

\* the condition under which row index i is appended to indexes
IsDegenerate(row) ==
    \/ Count(row, 1) = 1 /\ Count(row, 1) + Count(row, NO_CALL) = Len(row)
    \/ Count(row, 0) = 1 /\ Count(row, 0) + Count(row, NO_CALL) = Len(row)

DegenerateIndexes(m) == SelectSeq(Indexes(m), LAMBDA i : IsDegenerate(m[i]))

\* for obj in objs: s.remove(obj)
RemoveEach(s, objs) ==
    ForEach(LAMBDA left, n : RemoveFirst(left, objs[n]), s, 1, Len(objs))

\* a removal that takes out the rows and leaves the names
RemoveDegenerateNamesKept(names, m) == names

RemoveDegenerateNames(names, m) ==
    LET indexes == DegenerateIndexes(m)
    IN  RemoveEach(names, [k \in 1..Len(indexes) |-> names[indexes[k]]])

RemoveDegenerateRows(m) ==
    LET indexes == DegenerateIndexes(m)
    IN  RemoveEach(m, [k \in 1..Len(indexes) |-> m[indexes[k]]])

\* a loop that goes on after the first column that holds a call, and pops
\* the last column for each column without one
TrimStepNoBreak(names, s, j) ==
    IF \E i \in 1..Len(names) : j <= Len(s.matrix[i]) /\ s.matrix[i][j] # NO_CALL
    THEN [s EXCEPT !.finished_flag = 1]
    ELSE [finished_flag |-> s.finished_flag,
          cpg_positions |-> SubSeq(s.cpg_positions, 1, Len(s.cpg_positions) - 1),
          matrix |-> [i \in 1..Len(s.matrix) |->
                         SubSeq(s.matrix[i], 1, Len(s.matrix[i]) - 1)]]

\* one turn of the loop over the columns from the right, j being the column
\* at hand (columns count from 1); after the break nothing changes
TrimStep(names, s, j) ==
    IF s.finished_flag = 1
    THEN s
    ELSE IF \E i \in 1..Len(names) : s.matrix[i][j] # NO_CALL
         THEN [s EXCEPT !.finished_flag = 1]
         ELSE [finished_flag |-> 0,
               cpg_positions |-> SubSeq(s.cpg_positions, 1, Len(s.cpg_positions) - 1),
               matrix |-> [i \in 1..Len(s.matrix) |->
                              IF i <= Len(names)
                              THEN SubSeq(s.matrix[i], 1, Len(s.matrix[i]) - 1)
                              ELSE s.matrix[i]]]

\* finished_flag, cpg_positions and matrix when the loop has ended
TrimLoop(names, positions, m) ==
    ForEach(LAMBDA s, k : TrimStep(names, s, Len(positions) + 1 - k),
            [finished_flag |-> 0, cpg_positions |-> positions, matrix |-> m],
            1, Len(positions))

(***************************************************************************)
(* main.  An entry of CHROMOSOMES_CpG_RANGES is the chromosome, its ranges *)
(* and whether the value is None; the entries are in the order of the      *)
(* dictionary's keys.                                                      *)
(***************************************************************************)
Entry(c, ranges) == [chr |-> c, ranges |-> ranges, none |-> FALSE]

NoneEntry(c) == [chr |-> c, ranges |-> << >>, none |-> TRUE]

NoDigest == 0 - 1

\* PREPROCESS_DIR
PreprocessDir == disk[DATA_FILE_SHA256SUM]

chromosome == CHROMOSOMES_CpG_RANGES[key].chr

cpg_ranges == CHROMOSOMES_CpG_RANGES[key].ranges

\* the table of data/<chromosome>.db
Table == PreprocessDir.dbs[chromosome]

is_preprocessed ==
    /\ pc = "is_preprocessed"
    /\ DATA_FILE_ROW_COUNT' = get_file_row_count(file)
    /\ DATA_FILE_SHA256SUM' = get_file_sha256sum(file)
    /\ preprocessed' = IsValidCache(disk[get_file_sha256sum(file)], get_file_row_count(file))
    /\ pc' = IF IsValidCache(disk[get_file_sha256sum(file)], get_file_row_count(file))
             THEN "preprocess_chromosomes_cpg_ranges"
             ELSE "create_output_directory"
    /\ UNCHANGED <<file, requested, disk, runs, outcome, CHROMOSOMES_CpG_RANGES, key,
                   read_names, issued, cpg_positions, matrix, finished_flag, returned>>

\* the storage directory is made, after the removal of the one there is
create_output_directory ==
    /\ pc = "create_output_directory"
    /\ disk' = [disk EXCEPT ![DATA_FILE_SHA256SUM] = EmptyDir]
    /\ pc' = "preprocess_file"
    /\ UNCHANGED <<file, requested, runs, preprocessed, outcome, DATA_FILE_ROW_COUNT, DATA_FILE_SHA256SUM,
                   CHROMOSOMES_CpG_RANGES, key, read_names, issued, cpg_positions, matrix,
                   finished_flag, returned>>

\* a count that leaves the first line out, as the loop leaves it out of the
\* tables
ProcessedCountOfDataRows(f) ==
    (IF FirstShortLine(f) > Len(f) THEN Len(f) ELSE FirstShortLine(f) - 1) - 1

\* count of preprocess_file when its loop ends or returns
ProcessedCount(f) == IF FirstShortLine(f) > Len(f) THEN Len(f) ELSE FirstShortLine(f) - 1

\* the loop over the lines and the write of data/meta_data; the indexes are
\* still to be created when the count has been written
preprocess_file ==
    /\ pc = "preprocess_file"
    /\ LET ok   == FirstShortLine(file) > Len(file)
           tabs == LoadedTables(file)
       IN  /\ disk' = [disk EXCEPT ![DATA_FILE_SHA256SUM] =
                          [@ EXCEPT !.dbs = tabs,
                                    !.meta = IF ok THEN ProcessedCount(file) ELSE NoMeta]]
           /\ pc' = IF ok THEN "create_indexes" ELSE "exit"
           /\ outcome' = IF ok THEN outcome ELSE "exit 1"
    /\ UNCHANGED <<file, requested, runs, preprocessed, DATA_FILE_ROW_COUNT, DATA_FILE_SHA256SUM,
                   CHROMOSOMES_CpG_RANGES, key, read_names, issued, cpg_positions, matrix,
                   finished_flag, returned>>

\* the keys of sqlite3_conns: the chromosomes in the order the loop met them
Chromosomes(f) ==
    LET rows == SubSeq(f, 2, FirstShortLine(f) - 1)
    IN  KeepFirst([k \in 1..Len(rows) |-> rows[k].chr])

\* the last loop of preprocess_file: one step creates the two indexes of the
\* next table, and the function returns True when no table is left
create_indexes ==
    /\ pc = "create_indexes"
    /\ LET todo == SelectSeq(Chromosomes(file), LAMBDA c : c \notin PreprocessDir.indexed)
       IN  IF Len(todo) = 0
           THEN /\ pc' = "preprocess_chromosomes_cpg_ranges"
                /\ UNCHANGED disk
           ELSE /\ disk' = [disk EXCEPT ![DATA_FILE_SHA256SUM].indexed = @ \cup {todo[1]}]
                /\ UNCHANGED pc
    /\ UNCHANGED <<file, requested, runs, preprocessed, outcome, DATA_FILE_ROW_COUNT,
                   DATA_FILE_SHA256SUM, CHROMOSOMES_CpG_RANGES, key, read_names, issued,
                   cpg_positions, matrix, finished_flag, returned>>

\* a value that is the normalized ranges whether the table exists or not
PreprocessedEntryUnlessEmpty(e, dbs) ==
    IF Len(NewRanges(e.ranges)) = 0
    THEN NoneEntry(e.chr)
    ELSE Entry(e.chr, NewRanges(e.ranges))

\* the value preprocess_chromosomes_cpg_ranges leaves for one key
PreprocessedEntry(e, dbs) ==
    IF e.chr \notin DOMAIN dbs
    THEN NoneEntry(e.chr)
    ELSE IF Len(NewRanges(e.ranges)) = 0
         THEN NoneEntry(e.chr)
         ELSE Entry(e.chr, NewRanges(e.ranges))

preprocess_chromosomes_cpg_ranges ==
    /\ pc = "preprocess_chromosomes_cpg_ranges"
    /\ CHROMOSOMES_CpG_RANGES' =
           [k \in DOMAIN CHROMOSOMES_CpG_RANGES |->
               PreprocessedEntry(CHROMOSOMES_CpG_RANGES[k], PreprocessDir.dbs)]
    /\ key' = 1
    /\ pc' = "visualize"
    /\ UNCHANGED <<file, requested, disk, runs, preprocessed, outcome, DATA_FILE_ROW_COUNT,
                   DATA_FILE_SHA256SUM, read_names, issued, cpg_positions, matrix, finished_flag,
                   returned>>

\* the loop of visualize over the keys, up to the call of visualize_one
visualize ==
    /\ pc = "visualize"
    /\ IF key > Len(CHROMOSOMES_CpG_RANGES)
       THEN /\ pc' = "exit"
            /\ outcome' = "exit 0"
            /\ UNCHANGED <<key, read_names, issued, cpg_positions, matrix, finished_flag, returned>>
       ELSE IF CHROMOSOMES_CpG_RANGES[key].none
            THEN /\ key' = key + 1
                 /\ UNCHANGED <<pc, outcome, read_names, issued, cpg_positions, matrix,
                                finished_flag, returned>>
            ELSE /\ pc' = "read_names"
                 /\ read_names' = << >>
                 /\ issued' = << >>
                 /\ cpg_positions' = << >>
                 /\ matrix' = << >>
                 /\ finished_flag' = 0
                 /\ returned' = "running"
                 /\ UNCHANGED <<key, outcome>>
    /\ UNCHANGED <<file, requested, disk, runs, preprocessed, DATA_FILE_ROW_COUNT, DATA_FILE_SHA256SUM,
                   CHROMOSOMES_CpG_RANGES>>

\* a return of visualize_one that ends the loop of visualize
ReturnEndsLoop(where) ==
    /\ returned' = where
    /\ key' = key + 1
    /\ pc' = "exit"

\* visualize_one returns to the loop of visualize
Return(where) ==
    /\ returned' = where
    /\ key' = key + 1
    /\ pc' = "visualize"

\* the table named c in the file data/<c>.db after DROP TABLE scratch and
\* CREATE TABLE scratch(..): the scratch table is made in the file of the
\* chromosome, so it takes the place of the table t of a chromosome that
\* bears its name
TableAfterDrop(c, scratch, t) == IF c = scratch THEN << >> ELSE t

\* the chromosome table as the queries for read_names find it: the scratch
\* table read_names is made anew when there are more than BATCH ranges
ReadNamesTable ==
    IF Len(cpg_ranges) > BATCH
    THEN TableAfterDrop(chromosome, "read_names", Table)
    ELSE Table

\* visualize_one, up to the test of read_names_len
resolve_read_names ==
    /\ pc = "read_names"
    /\ IF chromosome \notin DOMAIN PreprocessDir.dbs
       THEN Return("no table") /\ UNCHANGED <<read_names, issued, disk>>
       ELSE IF Len(cpg_ranges) = 0
            THEN Return("no ranges") /\ UNCHANGED <<read_names, issued, disk>>
            ELSE /\ disk' = [disk EXCEPT ![DATA_FILE_SHA256SUM].dbs[chromosome] =
                                 ReadNamesTable]
                 /\ read_names' = ResolveReadNames(ReadNamesTable, cpg_ranges)
                 /\ issued' = ReadNamesQueries(ReadNamesTable, cpg_ranges)
                 /\ IF Len(ResolveReadNames(ReadNamesTable, cpg_ranges)) = 0
                    THEN Return("no reads")
                    ELSE pc' = "cpg_positions" /\ UNCHANGED <<key, returned>>
    /\ UNCHANGED <<file, requested, runs, preprocessed, outcome, DATA_FILE_ROW_COUNT,
                   DATA_FILE_SHA256SUM, CHROMOSOMES_CpG_RANGES, cpg_positions, matrix,
                   finished_flag>>

\* the positions of visualize_one.  With more than BATCH reads the scratch
\* table cpg_positions(start) is made anew; in the file of a chromosome of
\* that name the next query, which names the column read_name, raises
\* sqlite3.OperationalError and the exception ends main
resolve_cpg_positions ==
    /\ pc = "cpg_positions"
    /\ IF Len(read_names) > BATCH /\ chromosome = "cpg_positions"
       THEN /\ disk' = [disk EXCEPT ![DATA_FILE_SHA256SUM].dbs[chromosome] =
                            TableAfterDrop(chromosome, "cpg_positions", Table)]
            /\ pc' = "exit"
            /\ outcome' = "OperationalError"
            /\ UNCHANGED cpg_positions
       ELSE /\ cpg_positions' = ResolvePositions(Table, read_names, cpg_ranges)
            /\ pc' = "assemble"
            /\ UNCHANGED <<disk, outcome>>
    /\ UNCHANGED <<file, requested, runs, preprocessed, DATA_FILE_ROW_COUNT,
                   DATA_FILE_SHA256SUM, CHROMOSOMES_CpG_RANGES, key, read_names, issued, matrix,
                   finished_flag, returned>>

\* the matrix is filled, unless list.index raises and the exception ends main
assemble ==
    /\ pc = "assemble"
    /\ IF IndexRaises(Table, read_names, cpg_positions, cpg_ranges)
       THEN /\ pc' = "exit"
            /\ outcome' = "ValueError"
            /\ UNCHANGED matrix
       ELSE /\ matrix' = AssembleMatrix(Table, read_names, cpg_positions, cpg_ranges)
            /\ pc' = "remove_rows"
            /\ UNCHANGED outcome
    /\ UNCHANGED <<file, requested, disk, runs, preprocessed, DATA_FILE_ROW_COUNT, DATA_FILE_SHA256SUM,
                   CHROMOSOMES_CpG_RANGES, key, read_names, issued, cpg_positions, finished_flag,
                   returned>>

remove_rows ==
    /\ pc = "remove_rows"
    /\ read_names' = RemoveDegenerateNames(read_names, matrix)
    /\ UNCHANGED issued
    /\ matrix' = RemoveDegenerateRows(matrix)
    /\ pc' = "trim"
    /\ UNCHANGED <<file, requested, disk, runs, preprocessed, outcome, DATA_FILE_ROW_COUNT,
                   DATA_FILE_SHA256SUM, CHROMOSOMES_CpG_RANGES, key, cpg_positions,
                   finished_flag, returned>>

trim ==
    /\ pc = "trim"
    /\ LET end == TrimLoop(read_names, cpg_positions, matrix)
       IN  /\ cpg_positions' = end.cpg_positions
           /\ matrix' = end.matrix
           /\ finished_flag' = end.finished_flag
           /\ IF end.finished_flag = 0
              THEN Return("no information")
              ELSE pc' = "write" /\ UNCHANGED <<key, returned>>
    /\ UNCHANGED <<file, requested, disk, runs, preprocessed, outcome, DATA_FILE_ROW_COUNT,
                   DATA_FILE_SHA256SUM, CHROMOSOMES_CpG_RANGES, read_names, issued>>

\* the name of a read as the text artifact shows it.  The reads of the files
\* are numbered; read k bears a name of k letters, so that the names differ
\* in length and collate as the numbers do
ReadLabel(read_name) == [i \in 1..read_name |-> "a"]

\* the first field of the header line of the text artifact: one blank for
\* each character of read_names[0]
Blank(names) == [i \in 1..Len(ReadLabel(names[1])) |-> " "]

\* the text and the svg artifact, named by the chromosome and the first and
\* the last position; of the text, the first field of the header line and
\* the first field of each line after it
Artifact == [chr |-> chromosome, first |-> cpg_positions[1],
             last |-> cpg_positions[Len(cpg_positions)],
             blank |-> Blank(read_names),
             labels |-> [k \in DOMAIN read_names |-> ReadLabel(read_names[k])]]

write ==
    /\ pc = "write"
    /\ disk' = [disk EXCEPT ![DATA_FILE_SHA256SUM].vis = @ \cup {Artifact}]
    /\ Return("written")
    /\ UNCHANGED <<file, requested, runs, preprocessed, outcome, DATA_FILE_ROW_COUNT, DATA_FILE_SHA256SUM,
                   CHROMOSOMES_CpG_RANGES, read_names, issued, cpg_positions, matrix, finished_flag>>

Next ==
    \/ is_preprocessed
    \/ create_output_directory
    \/ preprocess_file
    \/ create_indexes
    \/ preprocess_chromosomes_cpg_ranges
    \/ visualize
    \/ resolve_read_names
    \/ resolve_cpg_positions
    \/ assemble
    \/ remove_rows
    \/ trim
    \/ write

(***************************************************************************)
(* Initial states: main is about to start on a data file and on the        *)
(* ranges parse_args has read, over an output directory that holds no      *)
(* storage directory yet.                                                  *)
(***************************************************************************)
InitWith(f, req) ==
    /\ file = f
    /\ requested = req
    /\ disk = [d \in 0..(DigestSpace - 1) |-> NoDir]
    /\ runs = 1
    /\ pc = "is_preprocessed"
    /\ outcome = "running"
    /\ preprocessed = "unknown"
    /\ DATA_FILE_ROW_COUNT = 0
    /\ DATA_FILE_SHA256SUM = NoDigest
    /\ CHROMOSOMES_CpG_RANGES = req
    /\ key = 0
    /\ read_names = << >>
    /\ issued = << >>
    /\ cpg_positions = << >>
    /\ matrix = << >>
    /\ finished_flag = 0
    /\ returned = "none"

\* the calls of the enumerated files, numbered by position, read, strand
CallCodes == 0..(MaxPos * MaxReads * 2 - 1)

CallOfCode(c, code) ==
    Row(c, (code \div (2 * MaxReads)) + 1, ((code \div 2) % MaxReads) + 1, code % 2 = 1)

\* the lists of at most MaxRows distinct calls, in ascending or in descending
\* order of their numbers
RowLists ==
    UNION {{s \in [1..n -> CallCodes] :
                \/ \A i \in 1..(n - 1) : s[i] < s[i + 1]
                \/ \A i \in 1..(n - 1) : s[i] > s[i + 1]} : n \in 0..MaxRows}

FileOf(c, codes) ==
    <<Header(MIN_FIELDS)>> \o [k \in 1..Len(codes) |-> CallOfCode(c, codes[k])]

\* the ranges [a, b] with a < b, as parse_args accepts them
RangesWithin(lo, hi) == {r \in (lo..hi) \X (lo..hi) : r[1] < r[2]}

\* one range, or two ranges with a gap between them
QueryRangeLists ==
    LET R == RangesWithin(0, MaxPos + 1)
    IN  {<<r>> : r \in R} \cup {p \in {<<r, q>> : r \in R, q \in R} : p[1][2] < p[2][1]}

\* files of one chromosome, queried for that chromosome
Init ==
    \E codes \in RowLists, ranges \in QueryRangeLists :
        InitWith(FileOf("Y", codes), <<Entry("Y", ranges)>>)

Spec == Init /\ [][Next]_vars

(***************************************************************************)
(* Range normalisation: one data file, queried with every list of at most  *)
(* MaxRanges ranges over 0..MaxCoord, in every order.                      *)
(***************************************************************************)
RangesFile ==
    <<Header(MIN_FIELDS), Row("Y", 1, 1, FALSE), Row("Y", 2, 1, TRUE),
      Row("Y", 3, 2, FALSE), Row("Y", 4, 2, FALSE)>>

RequestedRangeLists ==
    UNION {[1..n -> RangesWithin(0, MaxCoord)] : n \in 1..MaxRanges}

InitRanges ==
    \E ranges \in RequestedRangeLists : InitWith(RangesFile, <<Entry("Y", ranges)>>)

SpecRanges == InitRanges /\ [][Next]_vars

\* the integers a list of closed ranges covers
Covered(ranges) == UNION {ranges[k][1]..ranges[k][2] : k \in DOMAIN ranges}

\* preprocess_chromosomes_cpg_ranges has run and left ranges for entry k
Normalized(k) == key >= 1 /\ ~CHROMOSOMES_CpG_RANGES[k].none

\* C5: once the ranges of a chromosome are normalised, the list stored for it
\* is sorted by start, its intervals are pairwise disjoint and have
\* start < end, and it covers the integers the requested ranges cover.
NormalizedSortedDisjointSameCover ==
    \A k \in DOMAIN CHROMOSOMES_CpG_RANGES :
        Normalized(k) =>
            LET new == CHROMOSOMES_CpG_RANGES[k].ranges
            IN  /\ \A i \in DOMAIN new : new[i][1] < new[i][2]
                /\ \A i \in 1..(Len(new) - 1) : new[i][1] < new[i + 1][1]
                /\ \A i, j \in DOMAIN new :
                       i # j => (new[i][1]..new[i][2]) \cap (new[j][1]..new[j][2]) = {}
                /\ Covered(new) = Covered(requested[k].ranges)

\* three requested ranges, out of order and overlapping, are stored as one
NormalizedThreeIntoOne ==
    /\ Normalized(1)
    /\ requested[1].ranges = << <<2, 4>>, <<0, 1>>, <<1, 3>> >>
    /\ CHROMOSOMES_CpG_RANGES[1].ranges = << <<0, 4>> >>

\* C6 as stated: the stored list is the shortest list of disjoint closed
\* integer intervals with its cover, so that between two consecutive stored
\* intervals [a,b], [c,d] there is an integer that is not covered.
NormalizedMinimalOverIntegers ==
    \A k \in DOMAIN CHROMOSOMES_CpG_RANGES :
        Normalized(k) =>
            LET new == CHROMOSOMES_CpG_RANGES[k].ranges
            IN  \A i \in 1..(Len(new) - 1) : new[i][2] + 1 < new[i + 1][1]

\* C6 amended: requested ranges that overlap or share an end point are
\* merged and no others.  Two consecutive stored intervals share no point,
\* and each step from an integer of a stored interval to the next lies
\* within one requested range.
NormalizedMergesSharedPoints ==
    \A k \in DOMAIN CHROMOSOMES_CpG_RANGES :
        Normalized(k) =>
            LET new == CHROMOSOMES_CpG_RANGES[k].ranges
                old == requested[k].ranges
            IN  /\ \A i \in 1..(Len(new) - 1) : new[i][2] < new[i + 1][1]
                /\ \A i \in DOMAIN new : \A m \in new[i][1]..(new[i][2] - 1) :
                       \E n \in DOMAIN old : old[n][1] <= m /\ m + 1 <= old[n][2]

\* two ranges that share the end point 2 are stored as one, the range
\* [3,4] next to them as another
NormalizedSharedEndMerged ==
    /\ Normalized(1)
    /\ requested[1].ranges = << <<3, 4>>, <<0, 2>>, <<2, 3>> >>
    /\ CHROMOSOMES_CpG_RANGES[1].ranges = << <<0, 4>> >>

\* C7: normalising the stored list again returns it unchanged.
NormalizedIsFixpoint ==
    \A k \in DOMAIN CHROMOSOMES_CpG_RANGES :
        Normalized(k) =>
            NewRanges(CHROMOSOMES_CpG_RANGES[k].ranges) = CHROMOSOMES_CpG_RANGES[k].ranges

\* a stored list of two intervals, made of three requested ranges
NormalizedTwoOfThree ==
    /\ Normalized(1)
    /\ Len(requested[1].ranges) = 3
    /\ Len(CHROMOSOMES_CpG_RANGES[1].ranges) = 2
    /\ NewRanges(CHROMOSOMES_CpG_RANGES[1].ranges) = CHROMOSOMES_CpG_RANGES[1].ranges

(***************************************************************************)
(* The cache: main runs up to MaxRuns times over the same output           *)
(* directory, on a data file that may have been edited between two runs.   *)
(***************************************************************************)
ShortLine == Line(MIN_FIELDS - 1, "Y", 3, 1, FALSE)

CacheLines ==
    {Row("Y", 1, 1, FALSE), Row("Y", 2, 1, TRUE), Row("X", 1, 2, FALSE), ShortLine}

CacheFiles ==
    {<<Header(MIN_FIELDS)>> \o body : body \in UNION {[1..n -> CacheLines] : n \in 0..2}}

CacheRequests ==
    {<<Entry("Y", << <<1, 2>> >>)>>,
     <<Entry("X", << <<0, 1>> >>), Entry("Y", << <<0, 1>>, <<2, 3>> >>)>>}

\* the file as an edit between two runs leaves it: as it was, with a line
\* appended, or with its last line replaced
Edits(f) ==
    {f} \cup {Append(f, l) : l \in CacheLines}
        \cup {[f EXCEPT ![Len(f)] = l] : l \in CacheLines}

\* the process has ended and the program is started again with the same
\* arguments
rerun ==
    /\ pc = "exit"
    /\ runs < MaxRuns
    /\ runs' = runs + 1
    /\ file' \in Edits(file)
    /\ pc' = "is_preprocessed"
    /\ outcome' = "running"
    /\ preprocessed' = "unknown"
    /\ DATA_FILE_ROW_COUNT' = 0
    /\ DATA_FILE_SHA256SUM' = NoDigest
    /\ CHROMOSOMES_CpG_RANGES' = requested
    /\ key' = 0
    /\ read_names' = << >>
    /\ issued' = << >>
    /\ cpg_positions' = << >>
    /\ matrix' = << >>
    /\ finished_flag' = 0
    /\ returned' = "none"
    /\ UNCHANGED <<requested, disk>>

NextCache == Next \/ rerun

InitCache == \E f \in CacheFiles, req \in CacheRequests : InitWith(f, req)

SpecCache == InitCache /\ [][NextCache]_vars

\* C10: the verdict of is_preprocessed is true exactly when the storage
\* directory named by the file's digest holds a metadata record and the row
\* count in it is the row count of the file; nothing else is compared.
CacheValidIffMetaCountEqual ==
    [][is_preprocessed =>
          (preprocessed' =
              LET d == disk[get_file_sha256sum(file)]
              IN  d.exists /\ d.meta # NoMeta /\ d.meta = get_file_row_count(file))]_vars

\* a later run finds, under the digest of the edited file, the metadata
\* record of the file as it was, with another row count, and preprocesses
\* the file again
CacheStaleCountRejected ==
    /\ runs > 1
    /\ pc = "create_output_directory"
    /\ preprocessed = FALSE
    /\ PreprocessDir.exists
    /\ PreprocessDir.meta # NoMeta
    /\ PreprocessDir.meta # DATA_FILE_ROW_COUNT

(***************************************************************************)
(* Pruning: every file of PruneReads reads with at most one call at each   *)
(* of the positions 1..MaxCols, queried with one range over all of them.   *)
(***************************************************************************)
PruneSlots == (1..PruneReads) \X (1..MaxCols)

\* the rows of the calls, read by read and position by position
PruneRows(calls) ==
    LET slots == SelectSeq(
                     [k \in 1..(PruneReads * MaxCols) |->
                         <<((k - 1) \div MaxCols) + 1, ((k - 1) % MaxCols) + 1>>],
                     LAMBDA sl : calls[sl] # "none")
    IN  [k \in 1..Len(slots) |-> Row("Y", slots[k][2], slots[k][1], calls[slots[k]] = "-")]

InitPrune ==
    \E calls \in [PruneSlots -> {"none", "+", "-"}] :
        InitWith(<<Header(MIN_FIELDS)>> \o PruneRows(calls),
                 <<Entry("Y", << <<0, MaxCols + 1>> >>)>>)

SpecPrune == InitPrune /\ [][Next]_vars

\* the columns of a row that hold a call
Informative(row) == {j \in DOMAIN row : row[j] # NO_CALL}

\* C8: degenerate-row removal takes out the rows with exactly one call, and
\* their read names, and leaves the others as they are and in their order;
\* what it leaves has no degenerate row, so that a second removal changes
\* nothing.
DegenerateRowsRemovedOnce ==
    [][remove_rows =>
          LET keep == SelectSeq(Indexes(matrix),
                                LAMBDA i : Cardinality(Informative(matrix[i])) # 1)
          IN  /\ matrix' = [k \in 1..Len(keep) |-> matrix[keep[k]]]
              /\ read_names' = [k \in 1..Len(keep) |-> read_names[keep[k]]]
              /\ \A i \in DOMAIN matrix' : Cardinality(Informative(matrix'[i])) # 1
              /\ RemoveDegenerateRows(matrix') = matrix'
              /\ RemoveDegenerateNames(read_names', matrix') = read_names']_vars

\* of two reads selected, the removal has taken the first and left the
\* second, whose row has cells without a call
DegenerateFirstRowRemoved ==
    /\ pc = "trim"
    /\ ResolveReadNames(Table, cpg_ranges) = <<1, 2>>
    /\ read_names = <<2>>
    /\ Len(matrix) = 1
    /\ Cardinality(Informative(matrix[1])) = 2
    /\ Len(matrix[1]) = 3

\* C9: the trim removes the columns to the right of the last column that
\* holds a call in some remaining row, and nothing else: the columns to its
\* left stay, those without a call too, and when a column remains the last
\* one holds a call.
TrimRemovesTrailingColumnsOnly ==
    [][trim =>
          LET last == MaxOf({0} \cup {j \in DOMAIN cpg_positions :
                                        \E i \in DOMAIN matrix : matrix[i][j] # NO_CALL})
          IN  /\ cpg_positions' = SubSeq(cpg_positions, 1, last)
              /\ matrix' = [i \in DOMAIN matrix |-> SubSeq(matrix[i], 1, last)]
              /\ last > 0 => \E i \in DOMAIN matrix' : matrix'[i][last] # NO_CALL]_vars

\* of four columns the trim has removed the last and kept the first, which
\* holds no call
TrimKeptLeadingSentinelColumn ==
    /\ pc = "write"
    /\ Len(ResolvePositions(Table, ResolveReadNames(Table, cpg_ranges), cpg_ranges)) = 4
    /\ Len(cpg_positions) = 3
    /\ \A i \in DOMAIN matrix : matrix[i][1] = NO_CALL
    /\ \E i \in DOMAIN matrix : matrix[i][3] # NO_CALL

(***************************************************************************)
(* Batching: the enumerated files and ranges of Init, and besides them     *)
(* lists of about BATCH ranges and more, and files of about BATCH reads    *)
(* and more.                                                               *)
(***************************************************************************)
\* n ranges [2,3], [4,5], .., no two of which share a point
Ladder(n) == [k \in 1..n |-> <<2 * k, 2 * k + 1>>]

\* the lengths about the multiples of BATCH
LadderSizes == {w * BATCH + d : w \in 1..MaxWindows, d \in {0 - 1, 0, 1}}

\* the positions about the ranges that end a window
LadderSpots == {2} \cup {2 * w * BATCH + e : w \in 1..MaxWindows, e \in {0 - 2, 0, 2}}

\* two reads with one call each, queried with a long list of ranges
InitLadder ==
    \E n \in LadderSizes, a \in {2, 2 * MaxWindows * BATCH}, b \in LadderSpots :
        InitWith(<<Header(MIN_FIELDS), Row("Y", a, 1, FALSE), Row("Y", b, 2, TRUE)>>,
                 <<Entry("Y", Ladder(n))>>)

\* n reads with a call at position 2 each
Fillers(n) == [k \in 1..n |-> Row("Y", 2, k, k % 2 = 0)]

\* about BATCH reads with a call at one position, and one more read with a
\* call at any position, queried with one range or with two
InitManyReads ==
    \E n \in {BATCH - 1, BATCH, BATCH + 1}, p \in 1..MaxPos,
       ranges \in {<< <<0, MaxPos + 1>> >>, << <<0, 1>>, <<2, MaxPos + 1>> >>} :
        InitWith(<<Header(MIN_FIELDS)>> \o Fillers(n) \o <<Row("Y", p, n + 1, FALSE)>>,
                 <<Entry("Y", ranges)>>)

InitBatch == Init \/ InitLadder \/ InitManyReads

SpecBatch == InitBatch /\ [][Next]_vars

\* the calls of table t at a position of one of the ranges
InRange(t, ranges) ==
    {i \in DOMAIN t : \E k \in DOMAIN ranges : Between(t[i].start, ranges[k])}

\* the smallest position of the read's calls in the ranges
SmallestInRange(t, ranges, read_name) ==
    MinOf({t[i].start : i \in {k \in InRange(t, ranges) : t[k].read_name = read_name}})

\* C1 as stated: the position list is the sorted list of the distinct
\* positions, within the ranges, of the calls of the selected reads, however
\* many reads are selected.
PositionsAreInRangePositionsOfReads ==
    pc = "assemble" =>
        cpg_positions =
            SortedSeq({Table[i].start : i \in {k \in InRange(Table, cpg_ranges) :
                          \E n \in DOMAIN read_names : Table[k].read_name = read_names[n]}})

\* C2: over one range, over up to BATCH ranges and over more, the read list
\* holds the reads with a call at a position of one of the ranges, each
\* once and no other.
ReadsAreInRangeReads ==
    [][resolve_read_names /\ Len(cpg_ranges) > 0 =>
          /\ Range(read_names') = {Table[i].read_name : i \in InRange(Table, cpg_ranges)}
          /\ Cardinality(Range(read_names')) = Len(read_names')]_vars

\* more than BATCH ranges: one read is found by the query of the first
\* window and the other by the query that ends with the last range
ReadsOfFirstAndLastWindow ==
    /\ pc = "cpg_positions"
    /\ Len(cpg_ranges) > BATCH
    /\ Len(read_names) = 2
    /\ \E n \in DOMAIN read_names :
           SmallestInRange(Table, cpg_ranges, read_names[n]) < cpg_ranges[BATCH - 1][1]
    /\ \E n \in DOMAIN read_names :
           SmallestInRange(Table, cpg_ranges, read_names[n]) = cpg_ranges[Len(cpg_ranges)][1]

\* C3 as stated: in the assembled matrix a cell holds 0 or 1 exactly when
\* the table holds a call of the row's read at the column's position.
CellFilledIffCallStored ==
    pc = "remove_rows" =>
        \A i \in DOMAIN matrix : \A j \in DOMAIN cpg_positions :
            matrix[i][j] # NO_CALL <=>
                \E n \in DOMAIN Table : /\ Table[n].read_name = read_names[i]
                                        /\ Table[n].start = cpg_positions[j]

\* C4 as stated: the reads of the read list are in the order of their
\* smallest position within the ranges, whatever the number of ranges.
ReadsOrderedBySmallestInRange ==
    pc = "cpg_positions" =>
        \A i, k \in DOMAIN read_names :
            i < k => SmallestInRange(Table, cpg_ranges, read_names[i])
                         <= SmallestInRange(Table, cpg_ranges, read_names[k])

\* the directories, metadata records, tables and indexes under mrv_output/
Stores(d) == [n \in DOMAIN d |-> [exists |-> d[n].exists, meta |-> d[n].meta,
                                   dbs |-> d[n].dbs, indexed |-> d[n].indexed]]

\* is_preprocessed has returned True in the run at hand
CacheFoundValid == pc # "is_preprocessed" /\ preprocessed = TRUE

\* C11: when a run that has ingested the file has ended and the program is
\* started again on the file as it is, is_preprocessed finds the cache
\* valid; with a valid cache main goes on to the ranges, and no step of that
\* run removes a directory or writes a table or a metadata record.  When the
\* metadata record holds another row count than the file has, the storage
\* directory is removed and made again and the file is ingested again.
CacheReusedOrRebuilt ==
    [][/\ rerun /\ file' = file /\ outcome \in {"exit 0", "ValueError"} =>
              LET d == disk'[get_file_sha256sum(file')]
              IN  d.exists /\ d.meta = get_file_row_count(file')
       /\ is_preprocessed /\ preprocessed' = TRUE =>
              pc' = "preprocess_chromosomes_cpg_ranges"
       /\ CacheFoundValid => Stores(disk') = Stores(disk)
       /\ is_preprocessed /\ disk[get_file_sha256sum(file)].meta # get_file_row_count(file) =>
              pc' = "create_output_directory"
       /\ create_output_directory => /\ PreprocessDir' = EmptyDir
                                     /\ pc' = "preprocess_file"
       /\ preprocess_file /\ FirstShortLine(file) > Len(file) =>
              /\ PreprocessDir'.dbs = LoadedTables(file)
              /\ PreprocessDir'.meta = get_file_row_count(file)]_vars

\* a second run has found the cache of the file valid and has gone on to
\* the visualization over the tables of the first run
CacheReusedBySecondRun ==
    /\ runs = 2
    /\ CacheFoundValid
    /\ pc = "visualize"
    /\ Len(file) = 3
    /\ PreprocessDir.dbs = LoadedTables(file)
    /\ PreprocessDir.meta = Len(file)

(***************************************************************************)
(* The build: the runs of the cache, on files whose first line may have    *)
(* fewer than MIN_FIELDS fields, and a process that may be ended at any    *)
(* step by an exception no handler of main catches or by a signal.         *)
(***************************************************************************)
\* files whose first line has five fields and whose other lines have six
ShortHeaderFiles ==
    {<<Header(MIN_FIELDS - 1)>> \o body :
        body \in UNION {[1..n -> CacheLines \ {ShortLine}] : n \in 0..2}}

\* files of three well-formed data rows
ThreeRowFiles ==
    {<<Header(MIN_FIELDS)>> \o body : body \in [1..3 -> CacheLines \ {ShortLine}]}

BuildFiles == CacheFiles \cup ShortHeaderFiles \cup ThreeRowFiles

\* the process ends where it is: what it has written stays as it is
abort ==
    /\ pc # "exit"
    /\ pc' = "exit"
    /\ outcome' = "aborted"
    /\ UNCHANGED <<file, requested, disk, runs, preprocessed, DATA_FILE_ROW_COUNT,
                   DATA_FILE_SHA256SUM, CHROMOSOMES_CpG_RANGES, key, read_names, issued,
                   cpg_positions, matrix, finished_flag, returned>>

NextBuild == NextCache \/ abort

InitBuild == \E f \in BuildFiles, req \in CacheRequests : InitWith(f, req)

SpecBuild == InitBuild /\ [][NextBuild]_vars

\* C12: the metadata record is written only when the store is complete, the
\* indexes of every chromosome table included: once a run has ended, however
\* it ended, a storage directory that holds a metadata record has an index on
\* every table it holds.
MetadataOnlyOverIndexedTables ==
    pc = "exit" =>
        \A n \in DOMAIN disk :
            disk[n].exists /\ disk[n].meta # NoMeta => disk[n].indexed = DOMAIN disk[n].dbs

\* the file holds a data row of fewer than MIN_FIELDS fields
HasShortDataRow(f) == \E i \in 2..Len(f) : f[i].nf < MIN_FIELDS

\* C13: on a file with a data row of fewer than six fields preprocess_file
\* ends the run with exit status 1 and without a metadata record; a run that
\* ended so has normalized no range and resolved no read; and when the program
\* is started again on the same file, the storage directory of the file is not
\* a valid cache, so the tables left behind are removed, not queried.
ShortRowEndsRunWithoutCache ==
    [][/\ preprocess_file /\ HasShortDataRow(file) =>
              /\ pc' = "exit"
              /\ outcome' = "exit 1"
              /\ PreprocessDir'.meta = NoMeta
       /\ outcome = "exit 1" =>
              /\ key = 0
              /\ CHROMOSOMES_CpG_RANGES = requested
              /\ read_names = << >>
              /\ PreprocessDir.meta = NoMeta
              /\ PreprocessDir.vis = {}
       /\ rerun /\ outcome = "exit 1" /\ file' = file =>
              ~IsValidCache(disk'[get_file_sha256sum(file')], get_file_row_count(file'))
       /\ is_preprocessed /\ ~IsValidCache(disk[get_file_sha256sum(file)],
                                           get_file_row_count(file)) =>
              pc' = "create_output_directory"]_vars

\* the second run on a file whose third line is short has found the tables of
\* the first two lines without a metadata record, and is about to remove them
ShortRowCacheRejected ==
    /\ runs = 2
    /\ pc = "create_output_directory"
    /\ preprocessed = FALSE
    /\ Len(file) = 3
    /\ FirstShortLine(file) = 3
    /\ PreprocessDir.exists
    /\ PreprocessDir.meta = NoMeta
    /\ PreprocessDir.dbs = LoadedTables(file)
    /\ DOMAIN PreprocessDir.dbs # {}

\* C14: the first line of the file is outside the requirement of six fields:
\* a run ends with exit status 1 for the format of the file only when a data
\* row has fewer than six fields, so a file with a short first line and
\* well-formed data rows is ingested.
HeaderLineNotChecked ==
    outcome = "exit 1" => HasShortDataRow(file)

\* C15: when the loop of preprocess_file has ended without a format error,
\* the tables are those of the chromosomes named in field 0 of the data rows
\* (every line but the first), each table holds one row per data row of its
\* chromosome and no other row, with start = field 2, read_name = field 4 and
\* is_methylated = 1 exactly when field 5 does not start with '-', and the
\* row count in the metadata record is the number of lines of the file.
StoredCallsAreTheDataRows ==
    pc = "create_indexes" =>
        LET tabs == PreprocessDir.dbs
            rows == 2..Len(file)
            IsCallOf(v, i) == /\ v.start = file[i].pos
                              /\ v.read_name = file[i].read
                              /\ v.is_methylated \in {0, 1}
                              /\ (v.is_methylated = 1) = ~file[i].minus
        IN  /\ DOMAIN tabs = {file[i].chr : i \in rows}
            /\ \A i \in rows : \E k \in DOMAIN tabs[file[i].chr] :
                   IsCallOf(tabs[file[i].chr][k], i)
            /\ \A c \in DOMAIN tabs : \A k \in DOMAIN tabs[c] :
                   Cardinality({j \in DOMAIN tabs[c] : tabs[c][j] = tabs[c][k]})
                       = Cardinality({i \in rows : file[i].chr = c /\ IsCallOf(tabs[c][k], i)})
            /\ PreprocessDir.meta = Len(file)

\* a file of a header and two rows, of chromosome X and of chromosome Y, the
\* second with '-', has been loaded into two tables of one row
StoredTwoChromosomes ==
    /\ pc = "create_indexes"
    /\ Len(file) = 3
    /\ file[2].chr = "X"
    /\ file[3].chr = "Y" /\ file[3].minus
    /\ DOMAIN PreprocessDir.dbs = {"X", "Y"}
    /\ PreprocessDir.dbs["X"] = <<[start |-> 1, read_name |-> 2, is_methylated |-> 1]>>
    /\ PreprocessDir.dbs["Y"] = <<[start |-> 2, read_name |-> 1, is_methylated |-> 0]>>
    /\ PreprocessDir.meta = 3

\* visualize_one is running
InVisualizeOne ==
    pc \in {"read_names", "cpg_positions", "assemble", "remove_rows", "trim", "write"}

\* C16: a requested chromosome without a table does not end the run: its
\* entry becomes None while the entries of the chromosomes that have a table
\* become their normalized ranges; the loop of visualize passes over a None
\* entry without a call of visualize_one and calls it for every other entry;
\* and no artifact bears the name of a chromosome without a table.
MissingChromosomeSkipped ==
    [][/\ preprocess_chromosomes_cpg_ranges =>
              /\ pc' = "visualize"
              /\ outcome' = "running"
              /\ \A k \in DOMAIN requested :
                     IF requested[k].chr \in DOMAIN PreprocessDir.dbs
                     THEN CHROMOSOMES_CpG_RANGES'[k] =
                              Entry(requested[k].chr, NewRanges(requested[k].ranges))
                     ELSE CHROMOSOMES_CpG_RANGES'[k] = NoneEntry(requested[k].chr)
       /\ (visualize /\ key \in DOMAIN requested) =>
              IF requested[key].chr \in DOMAIN PreprocessDir.dbs
              THEN pc' = "read_names" /\ key' = key
              ELSE /\ pc' = "visualize"
                   /\ key' = key + 1
                   /\ outcome' = "running"
                   /\ disk' = disk
       /\ InVisualizeOne => chromosome \in DOMAIN PreprocessDir.dbs
       /\ \A n \in DOMAIN disk : \A a \in disk[n].vis : a.chr \in DOMAIN disk[n].dbs]_vars

\* chromosome X, requested first, has no table; the run has ended with exit
\* status 0 and the artifact of chromosome Y has been written
MissingXThenYWritten ==
    /\ pc = "exit"
    /\ outcome = "exit 0"
    /\ Len(requested) = 2
    /\ DOMAIN PreprocessDir.dbs = {"Y"}
    /\ CHROMOSOMES_CpG_RANGES[1] = NoneEntry("X")
    /\ ~CHROMOSOMES_CpG_RANGES[2].none
    /\ returned = "written"
    /\ \E a \in PreprocessDir.vis : a.chr = "Y"

\* no cell of the matrix holds a call
NoInformation(m) == \A i \in DOMAIN m : \A j \in DOMAIN m[i] : m[i][j] = NO_CALL

\* C17: when the rows kept by the removal hold no call in any column (no row
\* is kept, or every kept cell is blank), visualize_one returns with the
\* message of no information, writes no artifact, and the loop of visualize
\* goes on with the next key; otherwise the artifact is written next.
NoInformationSkipsArtifact ==
    [][/\ trim =>
              IF NoInformation(matrix)
              THEN /\ returned' = "no information"
                   /\ pc' = "visualize"
                   /\ key' = key + 1
                   /\ outcome' = "running"
                   /\ disk' = disk
              ELSE pc' = "write" /\ key' = key
       /\ (visualize /\ returned = "no information") =>
              /\ disk' = disk
              /\ IF key > Len(requested)
                 THEN outcome' = "exit 0"
                 ELSE IF CHROMOSOMES_CpG_RANGES[key].none
                      THEN pc' = "visualize" /\ key' = key + 1
                      ELSE pc' = "read_names" /\ key' = key]_vars

\* the only row of chromosome X, requested first, has been removed and no
\* column was left: nothing is written and visualize is about to go on with
\* chromosome Y, which has a table
NoInformationForXThenY ==
    /\ pc = "visualize"
    /\ returned = "no information"
    /\ outcome = "running"
    /\ key = 2
    /\ Len(requested) = 2
    /\ ~CHROMOSOMES_CpG_RANGES[2].none
    /\ matrix = << >>
    /\ cpg_positions = << >>
    /\ Len(PreprocessDir.dbs["X"]) = 1
    /\ PreprocessDir.vis = {}

(***************************************************************************)
(* The queries of the read set, under SpecBatch.                           *)
(***************************************************************************)
\* every range of the request is among the predicates of a query executed
EveryRangeIssued ==
    \A r \in Range(cpg_ranges) : \E k \in DOMAIN issued : r \in Range(issued[k])

\* C18: no query executed for the read set joins more than 300 range
\* predicates, and every range of the request is in a query executed.
QueriesOfAtMostBatchPredicates ==
    pc = "cpg_positions" =>
        /\ \A k \in DOMAIN issued : Len(issued[k]) <= BATCH
        /\ EveryRangeIssued

\* C18, amended: a query executed for the read set joins at most 300 distinct
\* ranges in at most 301 predicates, the range that closes a window being
\* joined twice; the first query joins at most 300 predicates; and every
\* range of the request is in a query executed.
QueriesOfAtMostBatchRanges ==
    pc = "cpg_positions" =>
        /\ \A k \in DOMAIN issued :
               /\ Cardinality(Range(issued[k])) <= BATCH
               /\ Len(issued[k]) <= BATCH + 1
               /\ Len(issued[k]) <= Cardinality(Range(issued[k])) + 1
        /\ Len(issued[1]) <= BATCH
        /\ EveryRangeIssued

\* 601 ranges have been queried in three queries, of 300, 301 and 2
\* predicates
QueriesOfThreeWindows ==
    /\ pc = "cpg_positions"
    /\ Len(cpg_ranges) = 2 * BATCH + 1
    /\ Len(issued) = 3
    /\ Len(issued[1]) = BATCH
    /\ Len(issued[2]) = BATCH + 1
    /\ Cardinality(Range(issued[2])) = BATCH
    /\ Len(issued[3]) = 2

(***************************************************************************)
(* The scratch tables: chromosomes that bear the name of a scratch table   *)
(* of visualize_one or another name, queried with about BATCH ranges or    *)
(* holding about BATCH reads.                                              *)
(***************************************************************************)
ScratchChroms == {"Y", "read_names", "cpg_positions"}

\* a read with two calls and a read with one call, queried with a ladder
InitScratchLadder ==
    \E c \in ScratchChroms, n \in {BATCH, BATCH + 1}, b \in {2, 2 * BATCH, 2 * BATCH + 2} :
        InitWith(<<Header(MIN_FIELDS), Row(c, 2, 1, FALSE), Row(c, 4, 1, TRUE),
                   Row(c, b, 2, TRUE)>>,
                 <<Entry(c, Ladder(n))>>)

\* about BATCH reads with a call at position 2 each and one more read with a
\* call at any position, queried with one range
InitScratchReads ==
    \E c \in ScratchChroms, n \in {BATCH - 1, BATCH}, p \in 1..MaxPos :
        InitWith(<<Header(MIN_FIELDS)>>
                     \o [k \in 1..n |-> Row(c, 2, k, k % 2 = 0)]
                     \o <<Row(c, p, n + 1, FALSE)>>,
                 <<Entry(c, << <<0, MaxPos + 1>> >>)>>)

InitScratch == InitScratchLadder \/ InitScratchReads

SpecScratch == InitScratch /\ [][Next]_vars

\* C19: once the store is built, the steps of the query phase (the
\* normalization of the ranges and visualize_one with its scratch tables)
\* leave the rows of every chromosome table as they are, whatever the name
\* of the chromosome and whatever the ranges.
TablesReadOnlyAfterBuild ==
    [][pc = "preprocess_chromosomes_cpg_ranges" \/ pc = "visualize" \/ InVisualizeOne =>
           \A n \in DOMAIN disk : disk'[n].dbs = disk[n].dbs]_vars

\* C20: in a text artifact the first field of the header line is as wide as
\* the longest of the read names that begin the lines after it.
HeaderBlankOfLongestLabel ==
    \A n \in DOMAIN disk : \A a \in disk[n].vis :
        Len(a.blank) = MaxOf({Len(a.labels[k]) : k \in DOMAIN a.labels})

(***************************************************************************)
(* Rows of equal content: every file of PruneReads + 1 reads with at most  *)
(* one call at each of the positions 1..MaxCols - 1, queried with one      *)
(* range over all of them.                                                 *)
(***************************************************************************)
AlignedSlots == (1..(PruneReads + 1)) \X (1..(MaxCols - 1))

\* the rows of the calls, read by read and position by position
AlignedRows(calls) ==
    LET slots == SelectSeq(
                     [k \in 1..((PruneReads + 1) * (MaxCols - 1)) |->
                         <<((k - 1) \div (MaxCols - 1)) + 1, ((k - 1) % (MaxCols - 1)) + 1>>],
                     LAMBDA sl : calls[sl] # "none")
    IN  [k \in 1..Len(slots) |-> Row("Y", slots[k][2], slots[k][1], calls[slots[k]] = "-")]

InitAligned ==
    \E calls \in [AlignedSlots -> {"none", "+", "-"}] :
        InitWith(<<Header(MIN_FIELDS)>> \o AlignedRows(calls),
                 <<Entry("Y", << <<0, MaxCols>> >>)>>)

SpecAligned == InitAligned /\ [][Next]_vars

\* the matrix as visualize_one assembles it for the reads and the positions
\* it resolves for the request at hand
AssembledFor(read_name) ==
    LET names == ResolveReadNames(Table, cpg_ranges)
    IN  AssembleRow(Table, read_name, ResolvePositions(Table, names, cpg_ranges), cpg_ranges)

\* C21: after the removal of the degenerate rows, and after the trim, there
\* are as many read names as rows, row i is the row assembled for
\* read_names[i], cut to the positions that remain, rows of equal content
\* included, and every row has one cell for each position that remains.
PrunedRowsAligned ==
    /\ pc \in {"trim", "write"} =>
           /\ Len(read_names) = Len(matrix)
           /\ \A i \in DOMAIN matrix :
                  /\ Len(matrix[i]) = Len(cpg_positions)
                  /\ matrix[i] = SubSeq(AssembledFor(read_names[i]), 1, Len(cpg_positions))
    /\ returned \in {"no information", "written"} =>
           /\ Len(read_names) = Len(matrix)
           /\ \A i \in DOMAIN matrix : Len(matrix[i]) = Len(cpg_positions)

\* of three reads the first and the third had rows of equal content with a
\* single call, both were removed by value, and the row left is the row of
\* the second read, cut by the trim from three cells to two
PrunedBetweenEqualRows ==
    /\ pc = "write"
    /\ ResolveReadNames(Table, cpg_ranges) = <<1, 2, 3>>
    /\ AssembledFor(1) = AssembledFor(3)
    /\ Len(AssembledFor(2)) = 3
    /\ read_names = <<2>>
    /\ Len(matrix) = 1
    /\ Len(cpg_positions) = 2
    /\ matrix[1] # SubSeq(AssembledFor(1), 1, 2)

\* C22: when the matrix has been assembled, the row of each read holds a call
\* in the column of the smallest position the read has within the ranges,
\* where the cursor of the merge starts; hence every row the removal leaves
\* holds two calls or more, and when the trim ends with a column that holds
\* a call, there is a read name and there is a position.
AssembledRowsInformative ==
    /\ pc = "remove_rows" =>
           \A i \in DOMAIN matrix : \E j \in DOMAIN cpg_positions :
               /\ cpg_positions[j] = SmallestInRange(Table, cpg_ranges, read_names[i])
               /\ matrix[i][j] # NO_CALL
    /\ pc = "trim" =>
           \A i \in DOMAIN matrix : Cardinality(Informative(matrix[i])) >= 2
    /\ pc = "write" => Len(read_names) > 0 /\ Len(cpg_positions) > 0


====
